---- MODULE Spec2Model ----
(***************************************************************************)
(* Model of jni/opus/pj_sources/pj_opus.c: the Opus codec adapter of       *)
(* pjmedia.  The factory singleton (opus_factory), its free-list of codec  *)
(* instances, the per-instance private data (struct opus_private) and the  *)
(* codec operations are modelled.  The Opus engine and the pjlib pool,     *)
(* mutex and codec-manager services are the environment: what they return  *)
(* is an input of the action that calls them.                              *)
(***************************************************************************)
EXTENDS Integers, Sequences, FiniteSets, TLC

\* ------------------------------------------------------------------ bounds
\* Number of codec instances the factory pool can hold before it is exhausted.
MaxInst == 2
\* Number of per-instance pools the endpoint can have alive at the same time.
MaxPools == 2

\* Framework worker threads that call into the factory and the codecs.
Threads == {1, 2}
\* The externally serialized media call path: one thread.
SeqThreads == {1}

Inst == 1..MaxInst
PoolIds == 1..MaxPools
\* The NULL pointer (no instance, no pool, no endpoint, no owner).
NULL == 0

\* Endpoints the framework can hand to pjmedia_codec_opus_init: endpoint 1 has
\* a codec manager, endpoint 2 has none (pjmedia_endpt_get_codec_mgr is NULL).
Endpoints == {1, 2}

VARIABLES
  endpt,        \* opus_factory.endpt: NULL or the endpoint
  fpool,        \* opus_factory.pool is non-NULL
  fmutex,       \* opus_factory.mutex is non-NULL
  regCount,     \* how many times the factory is in the codec manager's list
  mutexOwner,   \* the thread that holds opus_factory.mutex, or NULL
  codec_list,   \* opus_factory.codec_list, front first
  nAlloc,       \* instances carved so far from opus_factory.pool
  enc_ready,    \* opus->enc_ready of each instance
  dec_ready,    \* opus->dec_ready of each instance
  ipool,        \* opus->pool of each instance: NULL or a pool; psEnc and
                \* psDec point into this pool once the instance is open
  livePools,    \* instance pools created and not yet released
  pc,           \* where each thread is inside alloc / dealloc
  cur,          \* the local variable codec of each thread
  held,         \* the instances each thread has checked out
  releaseOrder, \* history: instances in the free-list, oldest release first
  last,         \* the call that returned in the last step, arguments and results
  crashed       \* the process was aborted (assertion, NULL dereference)

vars == <<endpt, fpool, fmutex, regCount, mutexOwner, codec_list, nAlloc,
          enc_ready, dec_ready, ipool, livePools, pc, cur, held,
          releaseOrder, last, crashed>>

factoryVars == <<endpt, fpool, fmutex, regCount>>
instVars == <<enc_ready, dec_ready, ipool, livePools>>
threadVars == <<pc, cur, held>>

\* ------------------------------------------------------------------ frames
\* struct pjmedia_frame: type, buf, size, timestamp.
Frame(type, buf, size, ts) == [type |-> type, buf |-> buf, size |-> size, ts |-> ts]
NoFrame == Frame("none", "null", 0, 0)

\* The record of the call that returned in the last step (NoCall after a step
\* inside a call).
NoCall ==
  [op |-> "none", thr |-> NULL, inst |-> NULL, status |-> "none", r |-> 0,
   arg |-> 0, cap |-> 0, in |-> NoFrame, out0 |-> NoFrame, out |-> NoFrame,
   rate |-> 0, ch |-> 0, ctl |-> <<>>, info |-> <<>>, attr |-> <<>>,
   params |-> <<>>, fec |-> -1]

Call(op, t, c, status) ==
  [NoCall EXCEPT !.op = op, !.thr = t, !.inst = c, !.status = status]

Range(f) == {f[x] : x \in DOMAIN f}

\* ------------------------------------------------------------------ pjlib
\* pj_list_push_front / pj_list_push_back on the free-list.
PushBack(list, c) == Append(list, c)
PushFront(list, c) == <<c>> \o list

\* pj_list_erase of the first node.
EraseFront(list) == Tail(list)

Min(S) == CHOOSE x \in S : \A y \in S : x <= y
RemoveFrom(s, c) == SelectSeq(s, LAMBDA x : x # c)

\* pjmedia_endpt_create_pool: a pool not alive and not pointed at, or NULL when
\* the endpoint cannot create one.
UnusedPools == PoolIds \ (livePools \cup Range(ipool))
CreatePool(ok) == IF ok /\ UnusedPools # {} THEN Min(UnusedPools) ELSE NULL

Init ==
  /\ endpt = NULL
  /\ fpool = FALSE
  /\ fmutex = FALSE
  /\ regCount = 0
  /\ mutexOwner = NULL
  /\ codec_list = <<>>
  /\ nAlloc = 0
  /\ enc_ready = [c \in Inst |-> FALSE]
  /\ dec_ready = [c \in Inst |-> FALSE]
  /\ ipool = [c \in Inst |-> NULL]
  /\ livePools = {}
  /\ pc = [t \in Threads |-> "idle"]
  /\ cur = [t \in Threads |-> NULL]
  /\ held = [t \in Threads |-> {}]
  /\ releaseOrder = <<>>
  /\ last = NoCall
  /\ crashed = FALSE

\* No thread is inside a factory call and no instance is checked out: the
\* state in which the framework starts up or shuts down.
Quiescent == \A t \in Threads : pc[t] = "idle" /\ held[t] = {}

\* ----------------------------------------------------- factory init / deinit
HasCodecMgr(e) == e = 1

AlreadyInitialized_NoCheck == FALSE
\* if (opus_factory.endpt != NULL) return PJ_SUCCESS;
AlreadyInitialized == endpt # NULL

\* The instance storage of a new factory pool, and an empty free-list.
ResetStorage ==
  /\ nAlloc' = 0
  /\ codec_list' = <<>>
  /\ releaseOrder' = <<>>
  /\ enc_ready' = [c \in Inst |-> FALSE]
  /\ dec_ready' = [c \in Inst |-> FALSE]
  /\ ipool' = [c \in Inst |-> NULL]

storageVars == <<nAlloc, codec_list, releaseOrder, enc_ready, dec_ready, ipool>>

\* pjmedia_codec_opus_init(endpt); poolOk, mutexOk and regOk are what
\* pjmedia_endpt_create_pool, pj_mutex_create_simple and
\* pjmedia_codec_mgr_register_factory answer.
OpusInit(e, poolOk, mutexOk, regOk) ==
  /\ ~crashed
  /\ UNCHANGED <<livePools, threadVars>>
  /\ IF AlreadyInitialized
       THEN /\ last' = Call("init", NULL, NULL, "PJ_SUCCESS")
            /\ UNCHANGED <<factoryVars, mutexOwner, storageVars, crashed>>
       ELSE /\ Quiescent
            /\ endpt' = e
            /\ UNCHANGED crashed
            /\ IF ~poolOk
                 THEN /\ fpool' = FALSE
                      /\ last' = [Call("init", NULL, NULL, "PJ_ENOMEM") EXCEPT !.arg = e]
                      /\ UNCHANGED <<fmutex, regCount, mutexOwner, storageVars>>
                 ELSE /\ ResetStorage
                      /\ IF ~mutexOk
                           THEN \* on_error: destroy the mutex, release the pool
                                /\ fmutex' = FALSE
                                /\ fpool' = FALSE
                                /\ last' = [Call("init", NULL, NULL, "E_MUTEX") EXCEPT !.arg = e]
                                /\ UNCHANGED <<regCount, mutexOwner>>
                           ELSE /\ fpool' = TRUE
                                /\ fmutex' = TRUE
                                /\ mutexOwner' = NULL
                                /\ IF ~HasCodecMgr(e)
                                     THEN /\ last' = [Call("init", NULL, NULL, "PJ_EINVALIDOP") EXCEPT !.arg = e]
                                          /\ UNCHANGED regCount
                                     ELSE IF ~regOk
                                       THEN /\ last' = [Call("init", NULL, NULL, "E_REGISTER") EXCEPT !.arg = e]
                                            /\ UNCHANGED regCount
                                       ELSE /\ regCount' = regCount + 1
                                            /\ last' = [Call("init", NULL, NULL, "PJ_SUCCESS") EXCEPT !.arg = e]

DeinitNotRegisteredStatus_Fails == "PJ_EINVALIDOP"
\* if (opus_factory.endpt == NULL) return PJ_SUCCESS;
DeinitNotRegisteredStatus == "PJ_SUCCESS"

\* pjmedia_codec_opus_deinit().  last.arg is opus_factory.endpt at the call and
\* last.r the number of registrations at the call.  Locking a NULL mutex or
\* releasing a NULL pool is undefined: the process aborts, or (the lock only)
\* the call goes on.
OpusDeinit ==
  /\ ~crashed
  /\ Quiescent
  /\ UNCHANGED <<livePools, threadVars>>
  /\ IF endpt = NULL
       THEN /\ last' = Call("deinit", NULL, NULL, DeinitNotRegisteredStatus)
            /\ UNCHANGED <<factoryVars, mutexOwner, storageVars, crashed>>
       ELSE LET abort ==
                  /\ crashed' = TRUE
                  /\ last' = [Call("deinit", NULL, NULL, "ABORT") EXCEPT !.arg = endpt, !.r = regCount]
                  /\ UNCHANGED <<factoryVars, mutexOwner, storageVars>>
            IN IF ~HasCodecMgr(endpt)
                 THEN \/ ~fmutex /\ abort
                      \/ \* endpt = NULL, unlock, return: mutex and pool stay
                         /\ fmutex => mutexOwner = NULL
                         /\ endpt' = NULL
                         /\ last' = [Call("deinit", NULL, NULL, "PJ_EINVALIDOP") EXCEPT !.arg = endpt, !.r = regCount]
                         /\ UNCHANGED <<fpool, fmutex, regCount, mutexOwner, storageVars, crashed>>
                 ELSE IF ~fmutex \/ ~fpool
                   THEN abort
                   ELSE /\ mutexOwner = NULL
                        /\ UNCHANGED crashed
                        /\ endpt' = NULL
                        /\ regCount' = IF regCount > 0 THEN regCount - 1 ELSE 0
                        /\ fmutex' = FALSE
                        /\ fpool' = FALSE
                        /\ mutexOwner' = NULL
                        /\ ResetStorage
                        /\ last' = [Call("deinit", NULL, NULL,
                                         IF regCount > 0 THEN "PJ_SUCCESS" ELSE "PJ_ENOTFOUND")
                                      EXCEPT !.arg = endpt, !.r = regCount]

\* --------------------------------------------------------- opus_alloc_codec
\* pj_mutex_lock(opus_factory.mutex): the mutex is a simple (non-recursive)
\* one, so the call blocks while any thread, the caller included, holds it.
AllocLock(t) ==
  /\ ~crashed
  /\ pc[t] = "idle"
  /\ regCount > 0
  /\ mutexOwner = NULL
  /\ mutexOwner' = t
  /\ pc' = [pc EXCEPT ![t] = "a_get"]
  /\ UNCHANGED <<factoryVars, storageVars, livePools, cur, held, crashed>>
  /\ last' = NoCall

\* Get free nodes, if any; otherwise carve a new instance from the factory
\* pool.  oom: PJ_POOL_ZALLOC_T returns NULL, and PJ_ASSERT_RETURN returns
\* PJ_ENOMEM from inside the critical section.
AllocGet(t, oom) ==
  /\ ~crashed
  /\ pc[t] = "a_get"
  /\ UNCHANGED <<factoryVars, mutexOwner, instVars, held, crashed>>
  /\ IF codec_list # <<>>
       THEN /\ cur' = [cur EXCEPT ![t] = Head(codec_list)]
            /\ codec_list' = EraseFront(codec_list)
            /\ releaseOrder' = RemoveFrom(releaseOrder, Head(codec_list))
            /\ pc' = [pc EXCEPT ![t] = "a_unlock"]
            /\ last' = NoCall
            /\ UNCHANGED nAlloc
       ELSE IF oom
         THEN /\ pc' = [pc EXCEPT ![t] = "idle"]
              /\ last' = Call("alloc", t, NULL, "PJ_ENOMEM")
              /\ UNCHANGED <<nAlloc, codec_list, releaseOrder, cur>>
         ELSE /\ nAlloc < MaxInst
              /\ nAlloc' = nAlloc + 1
              /\ cur' = [cur EXCEPT ![t] = nAlloc + 1]
              /\ pc' = [pc EXCEPT ![t] = "a_unlock"]
              /\ last' = NoCall
              /\ UNCHANGED <<codec_list, releaseOrder>>

AllocUnlock(t) ==
  /\ ~crashed
  /\ pc[t] = "a_unlock"
  /\ mutexOwner' = NULL
  /\ pc' = [pc EXCEPT ![t] = "a_init"]
  /\ UNCHANGED <<factoryVars, storageVars, livePools, cur, held, crashed>>
  /\ last' = NoCall

\* After the unlock: reset the ready flags, create the pool of the instance
\* (poolOk: what pjmedia_endpt_create_pool answers; its result is not checked)
\* and return the instance.
AllocInit(t, poolOk) ==
  /\ ~crashed
  /\ pc[t] = "a_init"
  /\ LET c == cur[t]
         p == CreatePool(poolOk)
     IN /\ enc_ready' = [enc_ready EXCEPT ![c] = FALSE]
        /\ dec_ready' = [dec_ready EXCEPT ![c] = FALSE]
        /\ ipool' = [ipool EXCEPT ![c] = p]
        /\ livePools' = IF p = NULL THEN livePools ELSE livePools \cup {p}
        /\ held' = [held EXCEPT ![t] = @ \cup {c}]
        /\ last' = [Call("alloc", t, c, "PJ_SUCCESS") EXCEPT !.arg = p]
  /\ cur' = [cur EXCEPT ![t] = NULL]
  /\ pc' = [pc EXCEPT ![t] = "idle"]
  /\ UNCHANGED <<factoryVars, mutexOwner, codec_list, nAlloc, releaseOrder, crashed>>

\* ---------------------------------------------------------- opus_codec_close
CloseFlags_Keep(flags, c) == flags
\* opus->enc_ready = PJ_FALSE; opus->dec_ready = PJ_FALSE;
CloseFlags(flags, c) == [flags EXCEPT ![c] = FALSE]

\* ------------------------------------------------------- opus_dealloc_codec
\* Close codec, if it's not closed.
DeallocBegin(t, c) ==
  /\ ~crashed
  /\ pc[t] = "idle"
  /\ c \in held[t]
  /\ held' = [held EXCEPT ![t] = @ \ {c}]
  /\ cur' = [cur EXCEPT ![t] = c]
  /\ pc' = [pc EXCEPT ![t] = "d_lock"]
  /\ IF enc_ready[c] \/ dec_ready[c]
       THEN /\ enc_ready' = CloseFlags(enc_ready, c)
            /\ dec_ready' = CloseFlags(dec_ready, c)
       ELSE UNCHANGED <<enc_ready, dec_ready>>
  /\ UNCHANGED <<factoryVars, mutexOwner, codec_list, nAlloc, releaseOrder,
                 ipool, livePools, crashed>>
  /\ last' = NoCall

DeallocLock(t) ==
  /\ ~crashed
  /\ pc[t] = "d_lock"
  /\ mutexOwner = NULL
  /\ mutexOwner' = t
  /\ pc' = [pc EXCEPT ![t] = "d_push"]
  /\ UNCHANGED <<factoryVars, storageVars, livePools, cur, held, crashed>>
  /\ last' = NoCall

\* Put in the free list.
DeallocPush(t) ==
  /\ ~crashed
  /\ pc[t] = "d_push"
  /\ codec_list' = PushFront(codec_list, cur[t])
  /\ releaseOrder' = Append(releaseOrder, cur[t])
  /\ pc' = [pc EXCEPT ![t] = "d_unlock"]
  /\ UNCHANGED <<factoryVars, mutexOwner, nAlloc, instVars, cur, held, crashed>>
  /\ last' = NoCall

DeallocUnlock(t) ==
  /\ ~crashed
  /\ pc[t] = "d_unlock"
  /\ mutexOwner' = NULL
  /\ pc' = [pc EXCEPT ![t] = "d_release"]
  /\ UNCHANGED <<factoryVars, storageVars, livePools, cur, held, crashed>>
  /\ last' = NoCall

\* pj_pool_release(opus->pool), reading the field after the unlock.  A NULL
\* pool aborts; a pool already released is undefined: abort, or go on.
DeallocRelease(t, abortOnDangling) ==
  /\ ~crashed
  /\ pc[t] = "d_release"
  /\ LET p == ipool[cur[t]]
     IN IF p = NULL \/ (p \notin livePools /\ abortOnDangling)
          THEN /\ crashed' = TRUE
               /\ last' = Call("dealloc", t, cur[t], "ABORT")
               /\ UNCHANGED <<livePools, pc>>
          ELSE /\ livePools' = livePools \ {p}
               /\ pc' = [pc EXCEPT ![t] = "d_null"]
               /\ last' = NoCall
               /\ UNCHANGED crashed
  /\ UNCHANGED <<factoryVars, mutexOwner, storageVars, cur, held>>

\* opus->pool = NULL; return PJ_SUCCESS.
DeallocNull(t) ==
  /\ ~crashed
  /\ pc[t] = "d_null"
  /\ ipool' = [ipool EXCEPT ![cur[t]] = NULL]
  /\ last' = Call("dealloc", t, cur[t], "PJ_SUCCESS")
  /\ cur' = [cur EXCEPT ![t] = NULL]
  /\ pc' = [pc EXCEPT ![t] = "idle"]
  /\ UNCHANGED <<factoryVars, mutexOwner, codec_list, nAlloc, releaseOrder,
                 enc_ready, dec_ready, livePools, held, crashed>>

\* ------------------------------------------------------------ Opus engine
\* Error codes of the engine (opus_defines.h) named by opus_to_pjsip_error_code.
OPUS_OK == 0
OPUS_BAD_ARG == -1
OPUS_BUFFER_TOO_SMALL == -2
OPUS_INTERNAL_ERROR == -3
OPUS_INVALID_PACKET == -4
OPUS_UNIMPLEMENTED == -5
OPUS_INVALID_STATE == -6
OPUS_ALLOC_FAIL == -7

\* Values the adapter passes to opus_encoder_ctl.
OPUS_SIGNAL_VOICE == 3001
OPUS_BANDWIDTH_NARROWBAND == 1101
OPUS_BANDWIDTH_MEDIUMBAND == 1102
OPUS_BANDWIDTH_WIDEBAND == 1103
OPUS_BANDWIDTH_SUPERWIDEBAND == 1104
OPUS_BANDWIDTH_FULLBAND == 1105

opus_to_pjsip_error_code_Flat(e) == "PJMEDIA_ERROR"
\* int opus_to_pjsip_error_code(int opus_error)
opus_to_pjsip_error_code(e) ==
  CASE e = OPUS_BAD_ARG -> "PJ_EINVAL"
    [] e = OPUS_BUFFER_TOO_SMALL -> "PJMEDIA_CODEC_EPCMTOOSHORT"
    [] e = OPUS_INTERNAL_ERROR -> "PJMEDIA_CODEC_EFAILED"
    [] e = OPUS_INVALID_PACKET -> "PJMEDIA_CODEC_EBADBITSTREAM"
    [] e = OPUS_UNIMPLEMENTED -> "PJ_ENOTSUP"
    [] e = OPUS_INVALID_STATE -> "PJ_EINVALIDOP"
    [] e = OPUS_ALLOC_FAIL -> "PJMEDIA_CODEC_EFAILED"
    [] OTHER -> "PJMEDIA_ERROR"

\* ---------------------------------------------------------- fmtp parameters
\* A parameter is [name |-> string, val |-> sequence of characters].
\* pj_stricmp compares ignoring case: the spellings the inputs use, folded.
LowerName(n) ==
  CASE n = "UseInbandFEC" -> "useinbandfec"
    [] n = "MaxAverageBitrate" -> "maxaveragebitrate"
    [] n = "USEDTX" -> "usedtx"
    [] OTHER -> n

DigitOf(ch) ==
  CASE ch = "0" -> 0 [] ch = "1" -> 1 [] ch = "2" -> 2 [] ch = "3" -> 3
    [] ch = "4" -> 4 [] ch = "5" -> 5 [] ch = "6" -> 6 [] ch = "7" -> 7
    [] ch = "8" -> 8 [] ch = "9" -> 9 [] OTHER -> -1

\* pj_strtoul: the value of the leading decimal digits, 0 when there are none.
RECURSIVE StrToULFrom(_, _)
StrToULFrom(str, acc) ==
  IF str = <<>> \/ DigitOf(Head(str)) < 0
    THEN acc
    ELSE StrToULFrom(Tail(str), acc * 10 + DigitOf(Head(str)))

pj_strtoul(str) == StrToULFrom(str, 0)

\* (int) of the unsigned long: the value itself below 2^31, and every
\* parameter value of the inputs is below it.
ToInt(v) == v

Ctl(request, val) == [request |-> request, val |-> val]

BitrateCtl_Exclusive(v) ==
  IF v > 6000 /\ v < 510000 THEN <<Ctl("OPUS_SET_BITRATE", v)>> ELSE <<>>
\* The bitrate is set only inside [6000, 510000].
BitrateCtl(v) ==
  IF v >= 6000 /\ v <= 510000 THEN <<Ctl("OPUS_SET_BITRATE", v)>> ELSE <<>>

\* The bandwidth ceiling by tiers.
BandwidthCtl(v) ==
  IF v <= 8000 THEN <<Ctl("OPUS_SET_MAX_BANDWIDTH", OPUS_BANDWIDTH_NARROWBAND)>>
  ELSE IF v <= 12000 THEN <<Ctl("OPUS_SET_MAX_BANDWIDTH", OPUS_BANDWIDTH_MEDIUMBAND)>>
  ELSE IF v <= 16000 THEN <<Ctl("OPUS_SET_MAX_BANDWIDTH", OPUS_BANDWIDTH_WIDEBAND)>>
  ELSE IF v <= 24000 THEN <<Ctl("OPUS_SET_MAX_BANDWIDTH", OPUS_BANDWIDTH_SUPERWIDEBAND)>>
  ELSE IF v <= 48000 THEN <<Ctl("OPUS_SET_MAX_BANDWIDTH", OPUS_BANDWIDTH_FULLBAND)>>
  ELSE <<>>

\* The requests one recognized parameter makes the loop send.
ParamCtls(name, v) ==
  IF name = "useinbandfec" THEN <<Ctl("OPUS_SET_INBAND_FEC", v)>>
  ELSE IF name = "maxaveragebitrate" THEN BitrateCtl(v)
  ELSE IF name = "maxcodedaudiobandwidth" THEN BandwidthCtl(v)
  ELSE IF name = "usedtx" THEN <<Ctl("OPUS_SET_DTX", v)>>
  ELSE <<>>

RecognizedNames ==
  {"useinbandfec", "maxaveragebitrate", "maxcodedaudiobandwidth", "usedtx"}

RECURSIVE FmtpCtls_FirstMatch(_)
FmtpCtls_FirstMatch(params) ==
  IF params = <<>> THEN <<>>
  ELSE IF LowerName(Head(params).name) \in RecognizedNames
    THEN ParamCtls(LowerName(Head(params).name),
                   ToInt(pj_strtoul(Head(params).val)))
    ELSE FmtpCtls_FirstMatch(Tail(params))
\* The loop of opus_codec_open over attr->setting.enc_fmtp: the requests sent
\* to the encoder, in order.  Only the useinbandfec branch ends the loop.
RECURSIVE FmtpCtls(_)
FmtpCtls(params) ==
  IF params = <<>> THEN <<>>
  ELSE LET name == LowerName(Head(params).name)
           v == ToInt(pj_strtoul(Head(params).val))
       IN IF name = "useinbandfec"
            THEN <<Ctl("OPUS_SET_INBAND_FEC", v)>>
            ELSE (IF name = "maxaveragebitrate" THEN BitrateCtl(v)
                  ELSE IF name = "maxcodedaudiobandwidth" THEN BandwidthCtl(v)
                  ELSE IF name = "usedtx" THEN <<Ctl("OPUS_SET_DTX", v)>>
                  ELSE <<>>)
                 \o FmtpCtls(Tail(params))

\* Every request opus_codec_open sends to a freshly initialised encoder.
EncoderCtls(params) ==
  <<Ctl("OPUS_SET_COMPLEXITY", 2), Ctl("OPUS_SET_SIGNAL", OPUS_SIGNAL_VOICE)>>
    \o FmtpCtls(params)

\* ---------------------------------------------------------- codec operations
\* The caller of a codec operation holds the instance and is not inside a
\* factory call.
Holds(t, c) == ~crashed /\ pc[t] = "idle" /\ c \in held[t]

\* opus_codec_open(codec, attr).  encRet and decRet are what opus_encoder_init
\* and opus_decoder_init return.  The caller honours the asserted precondition
\* (both flags false).  Allocating from a NULL pool aborts; from a released
\* pool it is undefined: abort, or go on.
\* last.r = <<encRet, decRet>>, last.arg = the pool was alive at the call,
\* last.params = attr->setting.enc_fmtp, last.ctl = the requests sent to the
\* encoder.
Open(t, c, rate, ch, params, encRet, decRet, abortOnDangling) ==
  /\ Holds(t, c)
  /\ ~enc_ready[c] /\ ~dec_ready[c]
  /\ UNCHANGED <<factoryVars, mutexOwner, codec_list, nAlloc, releaseOrder,
                 ipool, livePools, threadVars>>
  /\ LET p == ipool[c]
         rec(status) ==
           [Call("open", t, c, status) EXCEPT
              !.rate = rate, !.ch = ch, !.r = <<encRet, decRet>>,
              !.params = params,
              !.arg = (p \in livePools)]
     IN IF p = NULL \/ (p \notin livePools /\ abortOnDangling)
          THEN /\ crashed' = TRUE
               /\ last' = rec("ABORT")
               /\ UNCHANGED <<enc_ready, dec_ready>>
          ELSE /\ UNCHANGED crashed
               /\ IF encRet # OPUS_OK
                    THEN /\ last' = rec("PJ_EINVAL")
                         /\ UNCHANGED <<enc_ready, dec_ready>>
                    ELSE /\ IF decRet # OPUS_OK
                              THEN /\ enc_ready' = [enc_ready EXCEPT ![c] = TRUE]
                                   /\ last' = [rec("PJ_EINVAL") EXCEPT !.ctl = EncoderCtls(params)]
                                   /\ UNCHANGED dec_ready
                              ELSE /\ enc_ready' = [enc_ready EXCEPT ![c] = TRUE]
                                   /\ dec_ready' = [dec_ready EXCEPT ![c] = TRUE]
                                   /\ last' = [rec("PJ_SUCCESS") EXCEPT !.ctl = EncoderCtls(params)]

\* opus_codec_close(codec).  last.arg = a ready flag was set at the call.
Close(t, c) ==
  /\ Holds(t, c)
  /\ enc_ready' = CloseFlags(enc_ready, c)
  /\ dec_ready' = CloseFlags(dec_ready, c)
  /\ last' = [Call("close", t, c, "PJ_SUCCESS") EXCEPT
                !.arg = (enc_ready[c] \/ dec_ready[c])]
  /\ UNCHANGED <<factoryVars, mutexOwner, codec_list, nAlloc, releaseOrder,
                 ipool, livePools, threadVars, crashed>>

\* The output frame of opus_codec_encode.
EncodeOut(in, out0, r) ==
  IF r < 0 THEN [out0 EXCEPT !.size = 0]
  ELSE [out0 EXCEPT !.size = r, !.type = "audio", !.ts = in.ts]

EncodeStatus(r) == IF r < 0 THEN opus_to_pjsip_error_code(r) ELSE "PJ_SUCCESS"

\* opus_codec_encode(codec, input, output_buf_len, output); r is what
\* opus_encode returns.  pj_assert(opus && ...) reads the local opus before it
\* is assigned: with assertions compiled in and a zero in that slot the
\* process aborts (assertFails), otherwise the call goes on.
\* last.arg = the frame size handed to the engine.
Encode(t, c, in, cap, out0, r, assertFails) ==
  /\ Holds(t, c)
  /\ enc_ready[c]
  /\ UNCHANGED <<factoryVars, mutexOwner, storageVars, livePools, threadVars>>
  /\ IF assertFails
       THEN /\ crashed' = TRUE
            /\ last' = [Call("encode", t, c, "ABORT") EXCEPT
                          !.in = in, !.out0 = out0, !.out = out0, !.r = r, !.cap = cap]
       ELSE /\ UNCHANGED crashed
            /\ last' = [Call("encode", t, c, EncodeStatus(r)) EXCEPT
                          !.in = in, !.out0 = out0, !.r = r, !.cap = cap,
                          !.arg = in.size \div 2,
                          !.out = EncodeOut(in, out0, r)]

DecodeOut_Propagates(in, out0, r) ==
  IF r < 0 THEN out0
  ELSE [out0 EXCEPT !.size = r, !.type = "audio", !.ts = in.ts]
\* The output frame of opus_codec_decode.
DecodeOut(in, out0, r) ==
  IF r <= 0 THEN [out0 EXCEPT !.type = "none", !.buf = "null", !.size = 0]
  ELSE [out0 EXCEPT !.size = r, !.type = "audio", !.ts = in.ts]

\* opus_codec_decode(codec, input, output_buf_len, output); r is what
\* opus_decode returns.  The decoder state lives in the pool of the instance:
\* with that pool released the call is undefined: abort, or go on.
\* last.arg = the sample bound handed to the engine, (int)(output->size >> 1),
\* last.fec = the decode_fec flag handed to it.
Decode(t, c, in, cap, out0, r, abortOnDangling) ==
  /\ Holds(t, c)
  /\ dec_ready[c]
  /\ UNCHANGED <<factoryVars, mutexOwner, storageVars, livePools, threadVars>>
  /\ IF ipool[c] \notin livePools /\ abortOnDangling
       THEN /\ crashed' = TRUE
            /\ last' = [Call("decode", t, c, "ABORT") EXCEPT
                          !.in = in, !.out0 = out0, !.out = out0, !.r = r, !.cap = cap]
       ELSE /\ UNCHANGED crashed
            /\ last' = [Call("decode", t, c, "PJ_SUCCESS") EXCEPT
                          !.in = in, !.out0 = out0, !.r = r, !.cap = cap,
                          !.arg = out0.size \div 2,
                          !.fec = 0,
                          !.out = DecodeOut(in, out0, r)]

RecoverOut_AsDecode(out0, r) ==
  IF r <= 0 THEN [out0 EXCEPT !.type = "none", !.buf = "null", !.size = 0]
  ELSE [out0 EXCEPT !.size = r, !.type = "audio"]
\* The output frame of opus_codec_recover: untouched when the engine fails,
\* the timestamp never written.
RecoverOut(out0, r) ==
  IF r < 0 THEN out0
  ELSE IF r = 0 THEN [out0 EXCEPT !.type = "none", !.buf = "null", !.size = 0]
  ELSE [out0 EXCEPT !.size = r, !.type = "audio"]

RecoverStatus(r) == IF r < 0 THEN "PJ_EINVAL" ELSE "PJ_SUCCESS"

\* opus_codec_recover(codec, output_buf_len, output); r is what opus_decode
\* returns for the lost packet.  The decoder state lives in the pool of the
\* instance: with that pool released the call is undefined: abort, or go on.
\* last.arg = the sample bound handed to the engine.
Recover(t, c, cap, out0, r, abortOnDangling) ==
  /\ Holds(t, c)
  /\ dec_ready[c]
  /\ UNCHANGED <<factoryVars, mutexOwner, storageVars, livePools, threadVars>>
  /\ IF ipool[c] \notin livePools /\ abortOnDangling
       THEN /\ crashed' = TRUE
            /\ last' = [Call("recover", t, c, "ABORT") EXCEPT
                          !.out0 = out0, !.out = out0, !.r = r, !.cap = cap]
       ELSE /\ UNCHANGED crashed
            /\ last' = [Call("recover", t, c, RecoverStatus(r)) EXCEPT
                          !.out0 = out0, !.r = r, !.cap = cap,
                          !.arg = cap \div 2,
                          !.fec = 0,
                          !.out = RecoverOut(out0, r)]

ParseFrame_Copy(pkt, pkt_size, ts) == Frame("audio", "copy", pkt_size, ts)
\* frames[0] as opus_codec_parse fills it: the packet as a single frame.
ParseFrame(pkt, pkt_size, ts) == Frame("audio", pkt, pkt_size, ts)

\* opus_codec_parse(codec, pkt, pkt_size, ts, frame_cnt, frames); the codec
\* is not used.  last.in = the packet and the timestamp, last.out = frames[0],
\* last.r = *frame_cnt at the return.
Parse(t, c, pkt, pkt_size, ts) ==
  /\ Holds(t, c)
  /\ UNCHANGED <<factoryVars, mutexOwner, storageVars, livePools, threadVars,
                 crashed>>
  /\ last' = [Call("parse", t, c, "PJ_SUCCESS") EXCEPT
                !.in = Frame("packet", pkt, pkt_size, ts),
                !.out = ParseFrame(pkt, pkt_size, ts),
                !.r = 1]

\* ------------------------------------------------------------------ inputs
ClockRates == {8000, 12000, 16000, 24000, 48000}
Channels == {1, 2}
\* What opus_encoder_init / opus_decoder_init return.
InitRets == {OPUS_OK, OPUS_BAD_ARG}
\* What opus_encode returns: every error code, an unknown one, and sizes.
EncodeRets == (-8)..2
\* What opus_decode returns.
DecodeRets == (-2)..2

Chars(n) ==
  CASE n = 5999 -> <<"5", "9", "9", "9">>
    [] n = 6000 -> <<"6", "0", "0", "0">>
    [] n = 16000 -> <<"1", "6", "0", "0", "0">>
    [] n = 20000 -> <<"2", "0", "0", "0", "0">>
    [] n = 510000 -> <<"5", "1", "0", "0", "0", "0">>
    [] n = 510001 -> <<"5", "1", "0", "0", "0", "1">>
    [] n = 0 -> <<"0">>
    [] OTHER -> <<"1">>
Param(name, val) == [name |-> name, val |-> val]
\* Values of maxaveragebitrate: around both ends of the accepted range, inside
\* it, and 0.
BitrateValues == {0, 5999, 6000, 20000, 510000, 510001}
ParamLists ==
  { <<>>,
    <<Param("usedtx", Chars(1)), Param("UseInbandFEC", Chars(1))>>,
    <<Param("UseInbandFEC", Chars(1)), Param("usedtx", Chars(1))>>,
    <<Param("stereo", Chars(1)), Param("maxcodedaudiobandwidth", Chars(16000)),
      Param("MaxAverageBitrate", Chars(20000)), Param("USEDTX", Chars(1))>>,
    <<Param("maxaveragebitrate", Chars(5999)), Param("usedtx", Chars(0))>>,
    <<Param("UseInbandFEC", Chars(0)), Param("maxaveragebitrate", Chars(20000))>> }
  \cup {<<Param("maxaveragebitrate", Chars(v))>> : v \in BitrateValues}

\* Input frames (PCM or packet) and the caller's output frame before the call.
InFrames == {Frame("audio", "pcm", 320, 7), Frame("audio", "pcm", 640, 8)}
OutFrames == {Frame("none", "out", 0, 5), Frame("audio", "out", 640, 6)}
Caps == {320, 640}
\* Packets handed to opus_codec_parse: buffer, size, timestamp.
Packets == {"pktA", "pktB"}
PacketSizes == {0, 1, 120}
Timestamps == {7, 9}

\* ------------------------------------------------------- factory queries
\* struct pjmedia_codec_info: type, encoding_name (its characters), clock_rate,
\* channel_cnt, pt.
Info(type, name, clock_rate, channel_cnt, pt) ==
  [type |-> type, encoding_name |-> name, clock_rate |-> clock_rate,
   channel_cnt |-> channel_cnt, pt |-> pt]

\* The lower-case form of a character, as pj_stricmp folds it.
LowerChar(ch) ==
  CASE ch = "O" -> "o" [] ch = "P" -> "p" [] ch = "U" -> "u" [] ch = "S" -> "s"
    [] ch = "E" -> "e" [] ch = "X" -> "x" [] OTHER -> ch

\* pj_stricmp(a, b) == 0: same length and the same characters ignoring case.
StrICmpEq(a, b) ==
  /\ Len(a) = Len(b)
  /\ \A i \in 1..Len(a) : LowerChar(a[i]) = LowerChar(b[i])

\* const pj_str_t opus_tag = {"opus", 4};
opus_tag == <<"o", "p", "u", "s">>

TestAllocStatus_AnyRate(info) ==
  IF info.type = "audio" /\ StrICmpEq(info.encoding_name, opus_tag)
    THEN "PJ_SUCCESS" ELSE "PJMEDIA_CODEC_EUNSUP"
\* The checks of opus_test_alloc, in order: type, encoding name, clock rate.
TestAllocStatus(info) ==
  IF info.type # "audio" THEN "PJMEDIA_CODEC_EUNSUP"
  ELSE IF ~StrICmpEq(info.encoding_name, opus_tag) THEN "PJMEDIA_CODEC_EUNSUP"
  ELSE IF info.clock_rate \in {8000, 12000, 16000, 24000, 48000} THEN "PJ_SUCCESS"
  ELSE "PJMEDIA_CODEC_EUNSUP"

\* A query of the codec manager on the registered factory: nothing but the
\* record of the call changes.
Registered == ~crashed /\ regCount > 0
QueryFrame ==
  UNCHANGED <<factoryVars, mutexOwner, storageVars, livePools, threadVars, crashed>>

\* opus_test_alloc(factory, info)
TestAlloc(info) ==
  /\ Registered
  /\ QueryFrame
  /\ last' = [Call("test_alloc", NULL, NULL, TestAllocStatus(info)) EXCEPT
                !.info = info]

EnumInfo_DefaultRate == Info("audio", opus_tag, 16000, 1, "PJMEDIA_RTP_PT_OPUS")
\* codecs[0] as opus_enum_codecs fills it.
EnumInfo == Info("audio", <<"o", "p", "u", "s">>, 48000, 1, "PJMEDIA_RTP_PT_OPUS")

\* opus_enum_codecs(factory, count, codecs); max is *count at the call.  It
\* reads nothing of the factory.  PJ_ASSERT_RETURN(codecs && *count > 0,
\* PJ_EINVAL) aborts when assertions are compiled in (assertAborts) and returns
\* PJ_EINVAL otherwise.  last.arg = max, last.r = *count at the return.
EnumCodecs(max, assertAborts) ==
  /\ ~crashed
  /\ UNCHANGED <<factoryVars, mutexOwner, storageVars, livePools, threadVars>>
  /\ IF max = 0
       THEN /\ crashed' = assertAborts
            /\ last' = [Call("enum_codecs", NULL, NULL,
                              IF assertAborts THEN "ABORT" ELSE "PJ_EINVAL")
                          EXCEPT !.arg = max, !.r = max]
       ELSE /\ UNCHANGED crashed
            /\ last' = [Call("enum_codecs", NULL, NULL, "PJ_SUCCESS") EXCEPT
                          !.arg = max, !.r = 1, !.info = EnumInfo]

\* struct pjmedia_codec_param, the fields the adapter reads or writes: info.*
\* and setting.*; plc and vad are pj_bool_t (0 or 1), dec_fmtp and enc_fmtp the
\* parameter lists.
Attr(ch, rate, avg_bps, max_bps, frm_ptime, bits, pt, frm_per_pkt, vad, plc, fmtp) ==
  [channel_cnt |-> ch, clock_rate |-> rate, avg_bps |-> avg_bps,
   max_bps |-> max_bps, frm_ptime |-> frm_ptime, pcm_bits_per_sample |-> bits,
   pt |-> pt, frm_per_pkt |-> frm_per_pkt, vad |-> vad, plc |-> plc,
   dec_fmtp |-> fmtp, enc_fmtp |-> <<>>]

DigitChar(d) ==
  CASE d = 0 -> "0" [] d = 1 -> "1" [] d = 2 -> "2" [] d = 3 -> "3"
    [] d = 4 -> "4" [] d = 5 -> "5" [] d = 6 -> "6" [] d = 7 -> "7"
    [] d = 8 -> "8" [] OTHER -> "9"

\* pj_utoa: the decimal digits of an unsigned value.
RECURSIVE pj_utoa(_)
pj_utoa(n) ==
  IF n < 10 THEN <<DigitChar(n)>>
  ELSE pj_utoa(n \div 10) \o <<DigitChar(n % 10)>>

DecFmtp_OneStereo(attr) ==
  (IF attr.plc = 0 THEN <<Param("useinbandfec", <<"0">>)>> ELSE <<>>)
  \o (IF attr.vad = 1 THEN <<Param("usedtx", <<"1">>)>> ELSE <<>>)
  \o (IF attr.channel_cnt = 2 THEN <<Param("stereo", <<"1">>)>> ELSE <<>>)
  \o (IF attr.clock_rate < 48000
        THEN <<Param("maxcodedaudiobandwidth", pj_utoa(attr.clock_rate))>>
        ELSE <<>>)
\* The list apply_opus_codec_params builds from cnt = 0: one entry for each
\* of its five tests that passes, in their order.
DecFmtp(attr) ==
  (IF attr.plc = 0 THEN <<Param("useinbandfec", <<"0">>)>> ELSE <<>>)
  \o (IF attr.vad = 1 THEN <<Param("usedtx", <<"1">>)>> ELSE <<>>)
  \o (IF attr.channel_cnt = 2 THEN <<Param("stereo", <<"1">>)>> ELSE <<>>)
  \o (IF attr.channel_cnt = 2 THEN <<Param("stereo", <<"1">>)>> ELSE <<>>)
  \o (IF attr.clock_rate < 48000
        THEN <<Param("maxcodedaudiobandwidth", pj_utoa(attr.clock_rate))>>
        ELSE <<>>)

\* void apply_opus_codec_params(pj_pool_t* pool, pjmedia_codec_param *attr)
apply_opus_codec_params(attr) == [attr EXCEPT !.dec_fmtp = DecFmtp(attr)]

\* A call of apply_opus_codec_params with a pool of the caller.
\* last.arg = attr at the call, last.attr = attr at the return.
ApplyParams(attr) ==
  /\ ~crashed
  /\ QueryFrame
  /\ last' = [Call("apply_params", NULL, NULL, "void") EXCEPT
                !.arg = attr, !.attr = apply_opus_codec_params(attr)]

\* #define FRAME_LENGTH_MS 10
FRAME_LENGTH_MS == 10

DefaultAttrOf_NoApply(id) ==
  Attr(1, 16000, 20000, 32000, FRAME_LENGTH_MS, 16, id.pt % 256, 1, 0, 1, <<>>)
\* The structure opus_default_attr fills after pj_bzero; the payload type is
\* cast to pj_uint8_t.
DefaultAttrOf(id) ==
  apply_opus_codec_params(
    Attr(1, 16000, 20000, 32000, FRAME_LENGTH_MS, 16, id.pt % 256, 1, 0, 1, <<>>))

\* opus_default_attr(factory, id, attr); the values are duplicated into
\* opus_factory.pool, which a registered factory has.
DefaultAttr(id) ==
  /\ Registered
  /\ QueryFrame
  /\ last' = [Call("default_attr", NULL, NULL, "PJ_SUCCESS") EXCEPT
                !.info = id, !.attr = DefaultAttrOf(id)]

\* Parameter structures handed to apply_opus_codec_params.
Bools == {0, 1}
AttrRates == {0, 8000, 24000, 47999, 48000, 96000}
PrevFmtp == {<<>>, <<Param("useinbandfec", <<"1">>), Param("stereo", <<"1">>)>>}
AttrInputs ==
  {Attr(ch, rate, 20000, 32000, 10, 16, 96, 1, vad, plc, prev) :
     plc \in Bools, vad \in Bools, ch \in Channels, rate \in AttrRates,
     prev \in PrevFmtp}

\* Values of *count the codec manager passes.
MaxCounts == 0..3

\* Descriptors the codec manager asks about.
MediaTypes == {"audio", "video"}
EncodingNames ==
  { <<"o", "p", "u", "s">>, <<"O", "P", "U", "S">>, <<"O", "p", "u", "S">>,
    <<"o", "p", "u">>, <<"o", "p", "u", "s", "x">>, <<"s", "p", "e", "e", "x">> }
InfoRates == ClockRates \cup {0, 32000, 44100}
PayloadTypes == {0, 96, 127}
TestInfos ==
  {Info(type, name, rate, 1, 96) :
     type \in MediaTypes, name \in EncodingNames, rate \in InfoRates}
DefaultInfos ==
  {Info("audio", opus_tag, rate, ch, pt) :
     rate \in ClockRates, ch \in Channels, pt \in PayloadTypes}

\* ------------------------------------------------------------ specifications
\* The answers of the environment matter only where the call asks for them.
Answers(asked) == IF asked THEN BOOLEAN ELSE {TRUE}

FactoryStep ==
  \/ \E e \in Endpoints, poolOk, mutexOk, regOk \in Answers(~AlreadyInitialized) :
       OpusInit(e, poolOk, mutexOk, regOk)
  \/ OpusDeinit

PoolStep(t) ==
  \/ AllocLock(t)
  \/ \E oom \in BOOLEAN : AllocGet(t, oom)
  \/ AllocUnlock(t)
  \/ \E poolOk \in BOOLEAN : AllocInit(t, poolOk)
  \/ \E c \in Inst : DeallocBegin(t, c)
  \/ DeallocLock(t)
  \/ DeallocPush(t)
  \/ DeallocUnlock(t)
  \/ \E abort \in Answers(pc[t] = "d_release" /\ ipool[cur[t]] \notin livePools) :
       DeallocRelease(t, abort)
  \/ DeallocNull(t)

\* The frames and buffers the worker threads pass to encode and decode.
PcmInput == Frame("audio", "pcm", 320, 7)
PacketInput == Frame("audio", "pkt", 1, 7)
EncodeOutput == Frame("none", "out", 0, 5)
DecodeOutput == Frame("none", "out", 640, 5)

\* Codec calls of the worker threads, with one representative input each.
CodecStep(t) ==
  \E c \in Inst :
    \/ \E encRet, decRet \in InitRets, abort \in Answers(ipool[c] \notin livePools) :
         Open(t, c, 16000, 1, <<>>, encRet, decRet, abort)
    \/ Close(t, c)
    \/ \E assertFails \in BOOLEAN :
         Encode(t, c, PcmInput, 640, EncodeOutput, 1, assertFails)
    \/ \E abort \in Answers(ipool[c] \notin livePools) :
         Decode(t, c, PacketInput, 640, DecodeOutput, 1, abort)

Next ==
  \/ FactoryStep
  \/ \E t \in Threads : PoolStep(t)
  \/ \E t \in Threads : CodecStep(t)

\* Several framework threads allocate, use and deallocate instances.
Spec == Init /\ [][Next]_vars

\* Codec calls of the serialized call path, over all the inputs.
CodecStepSeq(t) ==
  \E c \in Inst :
    \/ \E rate \in ClockRates, ch \in Channels, params \in ParamLists,
          encRet, decRet \in InitRets, abort \in Answers(ipool[c] \notin livePools) :
         Open(t, c, rate, ch, params, encRet, decRet, abort)
    \/ Close(t, c)
    \/ \E in \in InFrames, cap \in Caps, out0 \in OutFrames, r \in EncodeRets,
          assertFails \in BOOLEAN :
         Encode(t, c, in, cap, out0, r, assertFails)
    \/ \E in \in InFrames, cap \in Caps, out0 \in OutFrames, r \in DecodeRets,
          abort \in Answers(ipool[c] \notin livePools) :
         Decode(t, c, in, cap, out0, r, abort)
    \/ \E cap \in Caps, out0 \in OutFrames, r \in DecodeRets,
          abort \in Answers(ipool[c] \notin livePools) :
         Recover(t, c, cap, out0, r, abort)
    \/ \E pkt \in Packets, pkt_size \in PacketSizes, ts \in Timestamps :
         Parse(t, c, pkt, pkt_size, ts)

\* The serialized call path works on one instance at a time.
PoolStepSeq(t) ==
  \/ held[t] = {} /\ AllocLock(t)
  \/ \E oom \in BOOLEAN : AllocGet(t, oom)
  \/ AllocUnlock(t)
  \/ \E poolOk \in BOOLEAN : AllocInit(t, poolOk)
  \/ \E c \in Inst : DeallocBegin(t, c)
  \/ DeallocLock(t)
  \/ DeallocPush(t)
  \/ DeallocUnlock(t)
  \/ \E abort \in Answers(pc[t] = "d_release" /\ ipool[cur[t]] \notin livePools) :
       DeallocRelease(t, abort)
  \/ DeallocNull(t)

NextSeq ==
  \/ FactoryStep
  \/ \E t \in SeqThreads : PoolStepSeq(t)
  \/ \E t \in SeqThreads : CodecStepSeq(t)

\* One thread uses the factory and one codec instance at a time.
SpecSeq == Init /\ [][NextSeq]_vars

NextPool ==
  \/ FactoryStep
  \/ \E t \in Threads : PoolStep(t)

\* Several framework threads allocate and deallocate instances.
SpecPool == Init /\ [][NextPool]_vars

\* ------------------------------------------------------------------ claims
ListSet(list) == {list[i] : i \in 1..Len(list)}
CheckedOut == UNION {held[t] : t \in Threads}
\* Instances a thread has taken out of the free-list and not returned yet, or
\* is about to push.
Owning == {"a_unlock", "a_init", "d_lock", "d_push"}
InFlight == {cur[t] : t \in {u \in Threads : pc[u] \in Owning}}

\* C1: the free-list is LIFO.  The step of opus_alloc_codec that gets the
\* instance takes, from a non-empty free-list, the instance released most
\* recently among those still in the list, and carves a new instance (one that
\* is nowhere else) only when the free-list is empty.
C1_FreeListLifo ==
  [][\A t \in Threads :
       (pc[t] = "a_get" /\ pc'[t] = "a_unlock") =>
         IF codec_list # <<>>
           THEN /\ cur'[t] = releaseOrder[Len(releaseOrder)]
                /\ nAlloc' = nAlloc
                /\ ListSet(codec_list') = ListSet(codec_list) \ {cur'[t]}
           ELSE /\ nAlloc' = nAlloc + 1
                /\ cur'[t] = nAlloc'
                /\ cur'[t] \notin CheckedOut \cup InFlight]_vars

\* C1 witness: an allocation took an instance out of a free-list that held
\* another instance as well, released earlier.
C1_Witness ==
  \E t \in Threads : pc[t] = "a_unlock" /\ codec_list # <<>> /\ nAlloc = 2

\* C2: pops and pushes happen under the guard, no instance is checked out
\* twice, no instance is lost, and a thread that runs encode or decode does
\* not hold the guard.
C2_GuardedFreeList ==
  /\ \A t \in Threads :
       pc[t] \in {"a_get", "a_unlock", "d_push", "d_unlock"} => mutexOwner = t
  /\ \A t1, t2 \in Threads : t1 # t2 => held[t1] \cap held[t2] = {}
  /\ \A t1, t2 \in Threads :
       (t1 # t2 /\ pc[t1] \in Owning /\ pc[t2] \in Owning) => cur[t1] # cur[t2]
  /\ CheckedOut \cap InFlight = {}
  /\ CheckedOut \cap ListSet(codec_list) = {}
  /\ Len(codec_list) = Cardinality(ListSet(codec_list))
  /\ (regCount > 0 /\ ~crashed) =>
       1..nAlloc = CheckedOut \cup InFlight \cup ListSet(codec_list)
  /\ last.op \in {"encode", "decode"} => mutexOwner # last.thr

\* C3: an open that the engine rejects returns PJ_EINVAL and leaves both
\* ready flags false; the two flags of an instance are always equal.
C3_NoPartialReady ==
  /\ (last.op = "open" /\ last.arg /\ last.r # <<OPUS_OK, OPUS_OK>>) =>
       /\ last.status = "PJ_EINVAL"
       /\ ~enc_ready[last.inst]
       /\ ~dec_ready[last.inst]
  /\ \A c \in Inst : enc_ready[c] = dec_ready[c]

\* C4: when the registration fails, init releases the pool, destroys the mutex
\* and leaves the factory uninitialized; init reports success only for a
\* factory that is registered.
C4_InitRollsBack ==
  /\ (last.op = "init" /\ last.status = "E_REGISTER") =>
       endpt = NULL /\ ~fpool /\ ~fmutex
  /\ (last.op = "init" /\ last.status = "PJ_SUCCESS") => regCount > 0

\* C5: init on an initialized factory returns PJ_SUCCESS and changes nothing
\* (no new pool or mutex, no second registration, the free-list as it was);
\* the factory is never registered twice.
C5_ReinitIsNoOp ==
  [][/\ regCount' <= 1
     /\ (last'.op = "init" /\ endpt # NULL) =>
          /\ last'.status = "PJ_SUCCESS"
          /\ UNCHANGED <<factoryVars, mutexOwner, storageVars, livePools,
                         threadVars, crashed>>]_vars

\* C5 witness: init returned on a registered factory whose free-list holds an
\* instance.
C5_Witness ==
  last.op = "init" /\ last.arg = NULL /\ regCount = 1 /\ codec_list # <<>>

\* C6 as claimed: deinit of a registered factory unregisters it and releases
\* the mutex and the pool; deinit of a factory that is not initialized reports
\* a failure.
C6_DeinitReportsNotInitialized ==
  /\ (last.op = "deinit" /\ last.arg # NULL /\ last.r = 1) =>
       /\ last.status = "PJ_SUCCESS"
       /\ regCount = 0 /\ ~fmutex /\ ~fpool /\ endpt = NULL
  /\ (last.op = "deinit" /\ last.arg = NULL) => last.status # "PJ_SUCCESS"

\* C6 amended: a deinit that returns on a registered factory unregisters it,
\* destroys the mutex, releases the pool and returns PJ_SUCCESS; a deinit of a
\* factory that is not initialized returns PJ_SUCCESS and changes nothing.
C6_DeinitIdempotent ==
  [][/\ (last'.op = "deinit" /\ regCount = 1 /\ ~crashed') =>
          /\ last'.status = "PJ_SUCCESS"
          /\ regCount' = 0 /\ ~fmutex' /\ ~fpool' /\ endpt' = NULL
     /\ (last'.op = "deinit" /\ endpt = NULL) =>
          /\ last'.status = "PJ_SUCCESS"
          /\ UNCHANGED <<factoryVars, mutexOwner, storageVars, livePools,
                         threadVars, crashed>>]_vars

\* C6 witness: deinit returned on a factory that was not initialized, after a
\* registration had been undone.
C6_Witness ==
  last.op = "deinit" /\ last.arg = NULL /\ ~fpool /\ ~fmutex

\* C7: instances in the free-list have both flags false, a deallocated
\* instance is pushed at the front, dealloc returns with the flags false and
\* the pool of the instance gone, and every instance alloc returns, for as
\* long as it is checked out, has a live pool of its own, created by that
\* alloc with both flags false.
C7_DeallocClosesAllocResets ==
  /\ \A c \in ListSet(codec_list) : ~enc_ready[c] /\ ~dec_ready[c]
  /\ \A t \in Threads : pc[t] = "d_unlock" => Head(codec_list) = cur[t]
  /\ (last.op = "alloc" /\ last.status = "PJ_SUCCESS") =>
       ~enc_ready[last.inst] /\ ~dec_ready[last.inst]
  /\ \A c \in CheckedOut : ipool[c] \in livePools
  /\ \A c1, c2 \in CheckedOut : c1 # c2 => ipool[c1] # ipool[c2]
  /\ livePools \subseteq {ipool[c] : c \in Inst}

\* C8: for every supported clock rate and channel count, open of a freshly
\* allocated instance that the engine accepts succeeds and sets both flags,
\* an encode the engine accepts succeeds, and close succeeds.
C8_OpenEncodeClose ==
  /\ (last.op = "open" /\ last.arg /\ last.r = <<OPUS_OK, OPUS_OK>>
        /\ last.rate \in ClockRates /\ last.ch \in Channels) =>
       /\ last.status = "PJ_SUCCESS"
       /\ enc_ready[last.inst] /\ dec_ready[last.inst]
  /\ (last.op = "encode" /\ last.r >= 0) => last.status = "PJ_SUCCESS"
  /\ last.op = "close" => last.status = "PJ_SUCCESS"

\* C9: close returns PJ_SUCCESS, sets both flags false and leaves the pool of
\* the instance (and with it the engine state) alone; afterwards the caller
\* still holds the instance and the precondition of open holds.
C9_CloseKeepsArena ==
  [][last'.op = "close" =>
       LET c == last'.inst
           t == last'.thr
       IN /\ last'.status = "PJ_SUCCESS"
          /\ ~enc_ready'[c] /\ ~dec_ready'[c]
          /\ ipool' = ipool /\ livePools' = livePools
          /\ c \in held'[t] /\ pc'[t] = "idle" /\ ~crashed']_vars

\* C9 witness: close returned on an instance that was open, its pool alive.
C9_Witness ==
  last.op = "close" /\ last.arg /\ ipool[last.inst] \in livePools

\* C10: decode returns PJ_SUCCESS whatever the engine returns: for r <= 0 the
\* output frame has type none, no buffer and size 0; for r > 0 it has type
\* audio, size r and the timestamp of the input frame.
C10_DecodeNeverFails ==
  last.op = "decode" =>
    /\ last.status = "PJ_SUCCESS"
    /\ IF last.r <= 0
         THEN last.out.type = "none" /\ last.out.buf = "null" /\ last.out.size = 0
         ELSE /\ last.out.type = "audio" /\ last.out.size = last.r
              /\ last.out.ts = last.in.ts

\* C10 witness: decode returned after the engine reported an error, with an
\* output frame that held audio before the call.
C10_Witness ==
  last.op = "decode" /\ last.r < 0 /\ last.out0.type = "audio"

\* C11: recover maps the engine's return value r three ways: r < 0 returns
\* PJ_EINVAL and leaves the output frame as it was; r = 0 returns PJ_SUCCESS
\* with type none, no buffer and size 0; r > 0 returns PJ_SUCCESS with type
\* audio and size r; the timestamp of the output frame is never written.
C11_RecoverThreeWay ==
  last.op = "recover" =>
    /\ last.out.ts = last.out0.ts
    /\ IF last.r < 0
         THEN last.status = "PJ_EINVAL" /\ last.out = last.out0
         ELSE /\ last.status = "PJ_SUCCESS"
              /\ IF last.r = 0
                   THEN /\ last.out.type = "none" /\ last.out.buf = "null"
                        /\ last.out.size = 0
                   ELSE last.out.type = "audio" /\ last.out.size = last.r

\* C11 witness: recover returned after the engine reported an error, with an
\* output frame that held audio before the call.
C11_Witness ==
  last.op = "recover" /\ last.r < 0 /\ last.out0.type = "audio"

\* C12: an encode whose engine call returns r < 0 returns the image of r
\* under the error mapper, a failure, with output size 0: OPUS_BAD_ARG gives
\* PJ_EINVAL, OPUS_BUFFER_TOO_SMALL PJMEDIA_CODEC_EPCMTOOSHORT,
\* OPUS_INTERNAL_ERROR PJMEDIA_CODEC_EFAILED, OPUS_INVALID_PACKET
\* PJMEDIA_CODEC_EBADBITSTREAM, OPUS_UNIMPLEMENTED PJ_ENOTSUP,
\* OPUS_INVALID_STATE PJ_EINVALIDOP, and a code the mapper has no case for
\* PJMEDIA_ERROR; for r >= 0 it returns PJ_SUCCESS with output size r, type
\* audio and the timestamp of the input frame.
C12_EncodeMapsErrors ==
  (last.op = "encode" /\ last.status # "ABORT") =>
    IF last.r < 0
      THEN /\ last.status # "PJ_SUCCESS"
           /\ last.out.size = 0
           /\ last.r = OPUS_BAD_ARG => last.status = "PJ_EINVAL"
           /\ last.r = OPUS_BUFFER_TOO_SMALL =>
                last.status = "PJMEDIA_CODEC_EPCMTOOSHORT"
           /\ last.r = OPUS_INTERNAL_ERROR => last.status = "PJMEDIA_CODEC_EFAILED"
           /\ last.r = OPUS_INVALID_PACKET =>
                last.status = "PJMEDIA_CODEC_EBADBITSTREAM"
           /\ last.r = OPUS_UNIMPLEMENTED => last.status = "PJ_ENOTSUP"
           /\ last.r = OPUS_INVALID_STATE => last.status = "PJ_EINVALIDOP"
           /\ last.r < OPUS_ALLOC_FAIL => last.status = "PJMEDIA_ERROR"
      ELSE /\ last.status = "PJ_SUCCESS"
           /\ last.out.size = last.r
           /\ last.out.type = "audio"
           /\ last.out.ts = last.in.ts

\* C12 witness: encode returned after the engine reported that the buffer is
\* too small, with an output frame whose size was not 0 before the call.
C12_Witness ==
  /\ last.op = "encode" /\ last.status # "ABORT"
  /\ last.r = OPUS_BUFFER_TOO_SMALL /\ last.out0.size > 0

QueryStep ==
  \/ \E info \in TestInfos : TestAlloc(info)
  \/ \E max \in MaxCounts : \E assertAborts \in Answers(max = 0) :
       EnumCodecs(max, assertAborts)
  \/ \E id \in DefaultInfos : DefaultAttr(id)
  \/ \E attr \in AttrInputs : ApplyParams(attr)

NextQuery ==
  \/ FactoryStep
  \/ QueryStep

\* The codec manager registers the factory and queries it.
SpecQuery == Init /\ [][NextQuery]_vars

\* C13: test_alloc returns PJ_SUCCESS if and only if the type of the
\* descriptor is audio, its encoding name is "opus" in any letter case and its
\* clock rate is one of 8000, 12000, 16000, 24000, 48000; every other
\* descriptor gets PJMEDIA_CODEC_EUNSUP.
C13_TestAllocAccepts ==
  last.op = "test_alloc" =>
    LET info == last.info
        accepted ==
          /\ info.type = "audio"
          /\ info.encoding_name \in
               { <<"o", "p", "u", "s">>, <<"O", "P", "U", "S">>,
                 <<"O", "p", "u", "S">> }
          /\ \/ info.clock_rate = 8000 \/ info.clock_rate = 12000
             \/ info.clock_rate = 16000 \/ info.clock_rate = 24000
             \/ info.clock_rate = 48000
    IN last.status = IF accepted THEN "PJ_SUCCESS" ELSE "PJMEDIA_CODEC_EUNSUP"

\* C13 witness: test_alloc rejected an audio descriptor named "OPUS" because
\* of its clock rate.
C13_Witness ==
  /\ last.op = "test_alloc" /\ last.info.type = "audio"
  /\ last.info.encoding_name = <<"O", "P", "U", "S">>
  /\ last.info.clock_rate = 44100 /\ last.status = "PJMEDIA_CODEC_EUNSUP"

\* C14: enum_codecs, for every *count >= 1 and in every state of the
\* factory, returns PJ_SUCCESS with *count = 1 and one descriptor: type audio,
\* name "opus", clock rate 48000, one channel.
C14_EnumOneDescriptor ==
  (last.op = "enum_codecs" /\ last.arg >= 1) =>
    /\ last.status = "PJ_SUCCESS"
    /\ last.r = 1
    /\ last.info.type = "audio"
    /\ last.info.encoding_name = <<"o", "p", "u", "s">>
    /\ last.info.clock_rate = 48000
    /\ last.info.channel_cnt = 1

\* C14 witness: enum_codecs returned for *count = 3 on a factory that is not
\* registered.
C14_Witness ==
  last.op = "enum_codecs" /\ last.arg = 3 /\ regCount = 0 /\ endpt = NULL

\* C15: apply_opus_codec_params replaces the advertised list, whatever it
\* held, by exactly: useinbandfec=0 iff plc is false, then usedtx=1 iff vad is
\* true, then stereo=1 twice iff there are two channels, then
\* maxcodedaudiobandwidth=<clock rate> iff the clock rate is below 48000; two
\* channels at 24000 with vad and plc set give usedtx=1, stereo=1, stereo=1,
\* maxcodedaudiobandwidth=24000.  Nothing else of the structure changes.
C15_AdvertisedParameters ==
  last.op = "apply_params" =>
    LET a == last.arg
        res == last.attr.dec_fmtp
        P(n, v) == [name |-> n, val |-> v]
        head == (IF a.plc = 0 THEN <<P("useinbandfec", <<"0">>)>> ELSE <<>>)
                \o (IF a.vad = 1 THEN <<P("usedtx", <<"1">>)>> ELSE <<>>)
                \o (IF a.channel_cnt = 2
                      THEN <<P("stereo", <<"1">>), P("stereo", <<"1">>)>>
                      ELSE <<>>)
    IN /\ [last.attr EXCEPT !.dec_fmtp = <<>>] = [a EXCEPT !.dec_fmtp = <<>>]
       /\ IF a.clock_rate < 48000
            THEN /\ Len(res) = Len(head) + 1
                 /\ SubSeq(res, 1, Len(head)) = head
                 /\ res[Len(res)].name = "maxcodedaudiobandwidth"
                 /\ pj_strtoul(res[Len(res)].val) = a.clock_rate
                 /\ \A i \in 1..Len(res[Len(res)].val) :
                      DigitOf(res[Len(res)].val[i]) >= 0
            ELSE res = head
       /\ (a.plc = 1 /\ a.vad = 1 /\ a.channel_cnt = 2 /\ a.clock_rate = 24000)
            => res = <<P("usedtx", <<"1">>), P("stereo", <<"1">>),
                       P("stereo", <<"1">>),
                       P("maxcodedaudiobandwidth", <<"2", "4", "0", "0", "0">>)>>

\* C15 witness: the call for two channels at 24000 with vad and plc set, on a
\* structure whose advertised list was not empty.
C15_Witness ==
  /\ last.op = "apply_params" /\ last.arg.dec_fmtp # <<>>
  /\ last.arg.plc = 1 /\ last.arg.vad = 1
  /\ last.arg.channel_cnt = 2 /\ last.arg.clock_rate = 24000

\* C16: default_attr yields, for every descriptor, one channel, clock rate
\* 16000, average bitrate 20000, maximum bitrate 32000, frames of 10 ms, 16
\* bits per sample, one frame per packet, plc set, vad clear and the payload
\* type of the descriptor; its advertised list is the single entry
\* maxcodedaudiobandwidth=16000.
C16_DefaultAttributes ==
  last.op = "default_attr" =>
    /\ last.status = "PJ_SUCCESS"
    /\ last.attr.channel_cnt = 1
    /\ last.attr.clock_rate = 16000
    /\ last.attr.avg_bps = 20000
    /\ last.attr.max_bps = 32000
    /\ last.attr.frm_ptime = 10
    /\ last.attr.pcm_bits_per_sample = 16
    /\ last.attr.frm_per_pkt = 1
    /\ last.attr.plc = 1
    /\ last.attr.vad = 0
    /\ last.attr.pt = last.info.pt
    /\ last.attr.dec_fmtp =
         <<[name |-> "maxcodedaudiobandwidth",
            val |-> <<"1", "6", "0", "0", "0">>]>>

\* C16 witness: default_attr returned for a stereo descriptor at 48000 with
\* payload type 127.
C16_Witness ==
  /\ last.op = "default_attr" /\ last.info.clock_rate = 48000
  /\ last.info.channel_cnt = 2 /\ last.info.pt = 127

\* C17: parse returns PJ_SUCCESS for any packet with a frame count of 1; the
\* frame has type audio, the packet buffer itself as its buffer, the size of
\* the packet and the timestamp given.
C17_ParseSingleFrame ==
  last.op = "parse" =>
    /\ last.status = "PJ_SUCCESS"
    /\ last.r = 1
    /\ last.out.type = "audio"
    /\ last.out.buf = last.in.buf
    /\ last.out.size = last.in.size
    /\ last.out.ts = last.in.ts

\* C17 witness: parse returned for a packet of 120 bytes.
C17_Witness ==
  last.op = "parse" /\ last.in.buf = "pktB" /\ last.in.size = 120

\* The requests open sends for the fmtp parameters: those after the two fixed
\* ones (complexity, signal).
FmtpRequests == SubSeq(last.ctl, 3, Len(last.ctl))

\* An open that got as far as the encoder settings.
OpenConfigured ==
  last.op = "open" /\ last.status # "ABORT" /\ last.r[1] = OPUS_OK

\* The directive the parameter p stands for, if any.
DirectiveOf(p) ==
  LET n == LowerName(p.name)
      v == pj_strtoul(p.val)
      R(req, val) == <<[request |-> req, val |-> val]>>
  IN CASE n = "useinbandfec" -> R("OPUS_SET_INBAND_FEC", v)
       [] n = "usedtx" -> R("OPUS_SET_DTX", v)
       [] n = "maxaveragebitrate" ->
            IF 6000 <= v /\ v <= 510000 THEN R("OPUS_SET_BITRATE", v) ELSE <<>>
       [] n = "maxcodedaudiobandwidth" ->
            IF v <= 8000 THEN R("OPUS_SET_MAX_BANDWIDTH", 1101)
            ELSE IF v <= 12000 THEN R("OPUS_SET_MAX_BANDWIDTH", 1102)
            ELSE IF v <= 16000 THEN R("OPUS_SET_MAX_BANDWIDTH", 1103)
            ELSE IF v <= 24000 THEN R("OPUS_SET_MAX_BANDWIDTH", 1104)
            ELSE IF v <= 48000 THEN R("OPUS_SET_MAX_BANDWIDTH", 1105)
            ELSE <<>>
       [] OTHER -> <<>>

\* C18 as claimed: the loop of open over the fmtp parameters applies the first
\* recognized name only: at most one directive is issued, the one of the first
\* parameter whose name is recognized.
C18_FirstMatchOnly ==
  OpenConfigured =>
    LET ps == last.params
        rec == {i \in 1..Len(ps) :
                  LowerName(ps[i].name) \in
                    {"useinbandfec", "maxaveragebitrate",
                     "maxcodedaudiobandwidth", "usedtx"}}
    IN /\ Len(FmtpRequests) <= 1
       /\ FmtpRequests =
            IF rec = {} THEN <<>> ELSE DirectiveOf(ps[Min(rec)])

\* C18 amended: the loop applies every recognized parameter in the order of
\* the list, up to and including the first useinbandfec, which ends the loop;
\* parameters after that useinbandfec are not applied.
C18_AppliesUntilInbandFec ==
  OpenConfigured =>
    LET ps == last.params
        n == Len(ps)
        fecs == {i \in 1..n : LowerName(ps[i].name) = "useinbandfec"}
        stop == IF fecs = {} THEN n ELSE Min(fecs)
        D[i \in 0..n] == IF i = 0 THEN <<>> ELSE D[i - 1] \o DirectiveOf(ps[i])
    IN FmtpRequests = D[stop]

\* C18 witness: open sent three directives for a list with three recognized
\* names.
C18_Witness ==
  OpenConfigured /\ Len(last.params) = 4 /\ Len(FmtpRequests) = 3

\* The positions of the maxaveragebitrate parameters of the last open, and of
\* those no useinbandfec precedes.
BitrateParams ==
  {i \in 1..Len(last.params) :
     LowerName(last.params[i].name) = "maxaveragebitrate"}
ReachedParams ==
  {i \in 1..Len(last.params) :
     \A j \in 1..(i - 1) : LowerName(last.params[j].name) # "useinbandfec"}

\* The encoder was sent the bitrate v.
BitrateSent(v) ==
  \E k \in 1..Len(FmtpRequests) :
    FmtpRequests[k] = [request |-> "OPUS_SET_BITRATE", val |-> v]

\* C19 as claimed: a maxaveragebitrate value v among the parameters of open
\* is sent to the encoder as its bitrate if and only if 6000 <= v <= 510000;
\* for a value outside the range nothing is sent and open still succeeds.
C19_BitrateInRange ==
  OpenConfigured =>
    /\ \A i \in BitrateParams :
         LET v == pj_strtoul(last.params[i].val)
         IN BitrateSent(v) <=> (6000 <= v /\ v <= 510000)
    /\ last.r[2] = OPUS_OK => last.status = "PJ_SUCCESS"

\* C19 amended: a maxaveragebitrate value v that no useinbandfec precedes in
\* the list is sent to the encoder as its bitrate if and only if
\* 6000 <= v <= 510000; one that follows a useinbandfec is not looked at; in
\* neither case does the value make open fail.
C19_BitrateInRangeWhenReached ==
  OpenConfigured =>
    /\ \A i \in BitrateParams \cap ReachedParams :
         LET v == pj_strtoul(last.params[i].val)
         IN BitrateSent(v) <=> (6000 <= v /\ v <= 510000)
    /\ (BitrateParams \cap ReachedParams = {}) =>
         \A k \in 1..Len(FmtpRequests) :
           FmtpRequests[k].request # "OPUS_SET_BITRATE"
    /\ last.r[2] = OPUS_OK => last.status = "PJ_SUCCESS"

\* C19 witness: open succeeded with maxaveragebitrate=510000, the upper end
\* of the range.
C19_Witness ==
  /\ OpenConfigured /\ last.status = "PJ_SUCCESS"
  /\ \E i \in BitrateParams : pj_strtoul(last.params[i].val) = 510000

\* C20: decode hands the engine a sample bound of output_buf_len / 2 and a
\* decode_fec flag of 0, whatever the input frame and the capacity; the bound
\* does not depend on what the output frame held before the call.
C20_DecodeSampleBound ==
  (last.op = "decode" /\ last.status # "ABORT") =>
    /\ last.arg = last.cap \div 2
    /\ last.fec = 0

\* C21: under concurrent alloc and dealloc, the pool of a checked-out instance
\* stays as opus_alloc_codec created it for as long as its holder keeps the
\* instance: no step of another thread changes opus->pool of the instance or
\* releases that pool, in particular not the tail of the opus_dealloc_codec
\* of the previous holder, which runs after the free-list push and unlock.
C21_ArenaLiveWhileHeld ==
  [][\A c \in CheckedOut \cap CheckedOut' :
       /\ ipool'[c] = ipool[c]
       /\ ipool[c] \in livePools => ipool[c] \in livePools']_vars

\* C22: opus_factory.mutex is released on every return path of
\* opus_alloc_codec and opus_dealloc_codec, the PJ_ENOMEM path included: a
\* thread that is outside both calls does not hold the mutex.
C22_GuardReleasedOnReturn ==
  \A t \in Threads : pc[t] = "idle" => mutexOwner # t

====
